---- MODULE Spec2Model ----
(***************************************************************************)
(* Model of libglosm-server/src/PreloadedXmlDatasource.cc: the coordinate  *)
(* codec, the element dispatcher driven by the XML tokenizer's callbacks,  *)
(* the end-of-way geometry, the Load/Clear lifecycle and the queries.      *)
(* The build modelled is the default one (TRUSTED_XML undefined, StrEq is  *)
(* strcmp) on an LP64 platform (long is 64 bits, int is 32 bits).          *)
(***************************************************************************)
EXTENDS Integers, Sequences, FiniteSets, TLC

\* ------------------------------------------------------------------ bounds
MaxLoads == 2       \* Load calls in one behaviour of the lifecycle specification
MaxElems == 3       \* elements opened at depth 1 in one behaviour of the lifecycle specification
MaxElemsOne == 2    \* elements opened at depth 1 in the single Load of the dispatcher specification
MaxNd == 2          \* length of a stored node-reference sequence
MaxMembers == 1     \* length of a stored member sequence
MaxGeomLen == 5     \* length of the open way's node list in the end-of-way specification
MaxFracLen == 9     \* digits after the dot in an input of the coordinate specification

\* ------------------------------------------------------- machine integers
IntMax == 2147483647
IntMin == -IntMax - 1

\* An identifier in the input is a decimal string of a 64-bit value; it is
\* held here as its two 32-bit halves <<hi, lo>> (value = hi * 2^32 + lo,
\* lo taken as the two's complement low word).
Id64(hi, lo) == <<hi, lo>>

\* `int id = strtol(...)`: strtol returns the 64-bit long, the assignment
\* to int keeps the low 32 bits.
ToInt(id) == id[2]

\* An int widened back to the 64-bit osmid_t key (sign extension).
Widen(i) == IF i < 0 THEN Id64(-1, i) ELSE Id64(0, i)

\* ------------------------------------------------------------- ParseCoord
Digits == {"0", "1", "2", "3", "4", "5", "6", "7", "8", "9"}
DigitVal(c) ==
  CASE c = "0" -> 0 [] c = "1" -> 1 [] c = "2" -> 2 [] c = "3" -> 3
    [] c = "4" -> 4 [] c = "5" -> 5 [] c = "6" -> 6 [] c = "7" -> 7
    [] c = "8" -> 8 [] c = "9" -> 9

\* The scanning loop of ParseCoord from position i, st is the locals.
RECURSIVE ParseCoordLoop(_, _, _)
ParseCoordLoop(str, i, st) ==
  IF i > Len(str) THEN st
  ELSE IF str[i] \in Digits THEN
    LET v == st.value * 10 + DigitVal(str[i]) IN
    IF st.haddot = 0 /\ v > 180 THEN [st EXCEPT !.value = v, !.err = "value too large"]
    ELSE IF st.haddot # 0 /\ st.fracdig + 1 = 7
      THEN [st EXCEPT !.value = v, !.fracdig = 7]
    ELSE ParseCoordLoop(str, i + 1,
           [st EXCEPT !.value = v,
                      !.fracdig = IF st.haddot # 0 THEN st.fracdig + 1 ELSE st.fracdig])
  ELSE IF str[i] = "." THEN
    ParseCoordLoop(str, i + 1, [st EXCEPT !.haddot = st.haddot + 1])
  ELSE [st EXCEPT !.err = "unexpected symbol"]

PadFracMut(value, fracdig) == value
RECURSIVE PadFrac(_, _)
PadFrac(value, fracdig) ==
  IF fracdig < 7 THEN PadFrac(value * 10, fracdig + 1) ELSE value

\* Result: [ok |-> TRUE, value |-> int] or [ok |-> FALSE, err |-> message].
ParseCoord(str) ==
  LET neg == Len(str) > 0 /\ str[1] = "-"
      st == ParseCoordLoop(str, IF neg THEN 2 ELSE 1,
                           [value |-> 0, fracdig |-> 0, haddot |-> 0, err |-> ""])
  IN IF st.err # "" THEN [ok |-> FALSE, err |-> st.err]
     ELSE IF st.haddot > 1 THEN [ok |-> FALSE, err |-> "multiple dots"]
     ELSE [ok |-> TRUE,
           value |-> LET v == PadFrac(st.value, st.fracdig) IN IF neg THEN -v ELSE v]

\* ------------------------------------------------------------------ BBoxi
Vector2i(x, y) == [x |-> x, y |-> y]
BBoxi(l, b, r, t) == [left |-> l, bottom |-> b, right |-> r, top |-> t]
Empty == BBoxi(IntMax, IntMax, IntMin, IntMin)
IsEmpty(b) == b.left > b.right \/ b.bottom > b.top
Include(b, p) ==
  [left   |-> IF p.x < b.left THEN p.x ELSE b.left,
   bottom |-> IF p.y < b.bottom THEN p.y ELSE b.bottom,
   right  |-> IF p.x > b.right THEN p.x ELSE b.right,
   top    |-> IF p.y > b.top THEN p.y ELSE b.top]
Intersects(a, b) ==
  ~(b.right < a.left \/ b.left > a.right \/ b.top < a.bottom \/ b.bottom > a.top)

\* ------------------------------------------------- osmlong_t arithmetic
\* A wide integer is six limbs, base 10^4, least significant first; after
\* Norm the limbs 1..5 are in 0..9999 and limb 6 carries the sign.
Base == 10000
Abs(n) == IF n < 0 THEN -n ELSE n
Sgn(n) == IF n < 0 THEN -1 ELSE 1
Limb(n, k) == CASE k = 0 -> n % Base [] k = 1 -> (n \div Base) % Base
                [] k = 2 -> n \div (Base * Base)
Norm(l) ==
  LET c1 == l[1] \div Base
      m2 == l[2] + c1      c2 == m2 \div Base
      m3 == l[3] + c2      c3 == m3 \div Base
      m4 == l[4] + c3      c4 == m4 \div Base
      m5 == l[5] + c4      c5 == m5 \div Base
  IN <<l[1] % Base, m2 % Base, m3 % Base, m4 % Base, m5 % Base, l[6] + c5>>
WZero == <<0, 0, 0, 0, 0, 0>>
WAdd(a, b) == Norm([k \in 1..6 |-> a[k] + b[k]])
WSub(a, b) == Norm([k \in 1..6 |-> a[k] - b[k]])
WNeg(a) == a[6] < 0
\* (osmlong_t)x * y for two ints
WMul(x, y) ==
  LET s == Sgn(x) * Sgn(y)
      a == Abs(x)   b == Abs(y)
      a0 == Limb(a, 0)  a1 == Limb(a, 1)  a2 == Limb(a, 2)
      b0 == Limb(b, 0)  b1 == Limb(b, 1)  b2 == Limb(b, 2)
  IN Norm(<<s * (a0 * b0), s * (a0 * b1 + a1 * b0),
            s * (a0 * b2 + a1 * b1 + a2 * b0),
            s * (a1 * b2 + a2 * b1), s * (a2 * b2), 0>>)
\* 2^63 = 9223372036854775808
W2p63 == <<5808, 5477, 3685, 7203, 922, 0>>
\* the value is representable in the signed 64-bit osmlong_t
InLong(a) == WNeg(WSub(a, W2p63)) /\ ~WNeg(WAdd(a, W2p63))


\* ------------------------------------------------------------ input sets
C0 == <<"0">>
C10 == <<"1", "0">>
CBad == <<"1", "8", "1">>

\* id attributes: two small ids and 2^32 + 1
IdAttrs == {Id64(0, 1), Id64(0, 2), Id64(1, 1)}
\* (lon, lat) attribute pairs of a node element
PosAttrs == {<<C0, C0>>, <<C10, C10>>, <<CBad, C0>>}

NodeAtts == {[id |-> i, lon |-> p[1], lat |-> p[2]] : i \in IdAttrs, p \in PosAttrs}
WayAtts == {[id |-> i] : i \in IdAttrs}
RelationAtts == {[id |-> i] : i \in {Id64(0, 1), Id64(1, 1)}}
BoundsAtts == {[minlat |-> C0, maxlat |-> C10, minlon |-> C0, maxlon |-> C10],
               [minlat |-> C0]}
BoundAtts == {[box |-> <<C0, C0, C10, C10>>], [box |-> <<C10, C10, C0, C0>>],
              [box |-> <<C0, C0>>], [version |-> <<"1">>]}
OtherAtts == {[version |-> <<"1">>]}

\* attribute lists of an nd element, in document order
NdAtts == {<< <<"ref", i>> >> : i \in IdAttrs} \cup {<<>>, << <<"lat", C0>> >>}
TagAtts == {[k |-> "highway", v |-> "primary"]}
MemberAtts == {[type |-> t, ref |-> Id64(0, 1), role |-> "outer"] : t \in {"node", "way", "bogus"}}
              \cup {[type |-> "way", ref |-> Id64(1, 1), role |-> "outer"],
                    [type |-> "way", ref |-> Id64(0, 1)],
                    [type |-> "way", ref |-> Id64(0, 1), role |-> "outer", id |-> Id64(0, 1)]}

\* the elements of the dispatcher specification: every variant
TopLevel == {<<"node", a>> : a \in NodeAtts} \cup {<<"way", a>> : a \in WayAtts}
            \cup {<<"relation", a>> : a \in RelationAtts}
            \cup {<<"bounds", a>> : a \in BoundsAtts}
            \cup {<<"bound", a>> : a \in BoundAtts}
            \cup {<<"changeset", a>> : a \in OtherAtts}
Children == {<<"nd", a>> : a \in NdAtts} \cup {<<"tag", a>> : a \in TagAtts}
            \cup {<<"member", a>> : a \in MemberAtts}
Filenames == {"-", "dump.osm", "missing.osm"}

\* the elements of the lifecycle specification: a few of each kind
LifeTopLevel ==
  {<<"node", [id |-> Id64(0, 1), lon |-> C0, lat |-> C0]>>,
   <<"node", [id |-> Id64(0, 2), lon |-> C10, lat |-> C10]>>,
   <<"node", [id |-> Id64(1, 1), lon |-> C10, lat |-> C10]>>,
   <<"node", [id |-> Id64(0, 1), lon |-> CBad, lat |-> C0]>>,
   <<"way", [id |-> Id64(0, 1)]>>,
   <<"relation", [id |-> Id64(0, 1)]>>,
   <<"bounds", [minlat |-> C0, maxlat |-> C10, minlon |-> C0, maxlon |-> C10]>>,
   <<"bounds", [minlat |-> C0, maxlat |-> C0, minlon |-> C0, maxlon |-> C0]>>,
   <<"bound", [box |-> <<C10, C10, C0, C0>>]>>,
   <<"changeset", [version |-> <<"1">>]>>}
LifeChildren ==
  {<<"nd", << <<"ref", Id64(0, 1)>> >> >>, <<"nd", << <<"ref", Id64(0, 2)>> >> >>,
   <<"tag", [k |-> "highway", v |-> "primary"]>>,
   <<"member", [type |-> "way", ref |-> Id64(0, 1), role |-> "outer"]>>}
LifeFilenames == {"dump.osm", "missing.osm"}

\* values an uninitialised local can hold
GarbageInts == {0, 1}
GarbageTypes == {"NODE", "WAY", "RELATION", "garbage"}

Has(atts, n) == n \in DOMAIN atts


\* ------------------------------------------------------------------ state
VARIABLES
  nodes_,          \* NodesMap: stored id -> Node (Pos)
  ways_,           \* WaysMap: stored id -> Way
  relations_,      \* RelationsMap: stored id -> Relation
  bbox_,           \* dataset bounding box
  InsideWhich,     \* NONE, NODE, WAY, RELATION
  tag_level_,      \* nesting depth
  last_way_,       \* key of the way entry last inserted or found
  last_relation_,  \* key of the relation entry last inserted or found
  pc,              \* "idle", "streaming" (inside Load's read loop), "crashed"
  res,             \* the file handle and the tokenizer instance of the running / last Load
  stdinOpen,       \* descriptor 0 is still open
  xmlDone,         \* the tokenizer has seen the root element close
  call,            \* the last call that returned: operation, how it ended
  ev,              \* the last callback delivered in this Load
  src,             \* what the source of the running / last Load declared
  loads,           \* Load calls made
  elems,           \* elements opened at depth 1 so far
  arg,             \* the string handed to ParseCoord by the coordinate specification
  ret              \* <<>> before that call, <<its result>> after it

vars == <<nodes_, ways_, relations_, bbox_, InsideWhich, tag_level_, last_way_,
          last_relation_, pc, res, stdinOpen, xmlDone, call, ev, src, loads, elems,
          arg, ret>>

NoMap == [k \in {} |-> 0]
Put(m, k, v) == [x \in DOMAIN m \cup {k} |-> IF x = k THEN v ELSE m[x]]
\* std::map::insert: an existing key keeps its value
Insert(m, k, v) == IF k \in DOMAIN m THEN m ELSE Put(m, k, v)

Node(lon, lat) == [Pos |-> Vector2i(lon, lat)]
Way == [Nodes |-> <<>>, Tags |-> NoMap, Closed |-> FALSE, Clockwise |-> FALSE, BBox |-> Empty]
Relation == [Members |-> <<>>]
Member(type, ref, role) == [Type |-> type, Ref |-> ref, Role |-> role]

\* ------------------------------------------------------------ ParseTag
ParseTag(map, atts) ==
  Insert(map, IF Has(atts, "k") THEN atts.k ELSE "", IF Has(atts, "v") THEN atts.v ELSE "")

\* ------------------------------------------------- ParseBounds, ParseBound
\* Result: [ok |-> TRUE, bbox |-> box] or [ok |-> FALSE].
ParseBounds(atts) ==
  LET c(n) == ParseCoord(atts[n])
      bad == \E n \in {"minlat", "maxlat", "minlon", "maxlon"} : Has(atts, n) /\ ~c(n).ok
      fld(n, dflt) == IF Has(atts, n) THEN c(n).value ELSE dflt
      bbox == BBoxi(fld("minlon", Empty.left), fld("minlat", Empty.bottom),
                    fld("maxlon", Empty.right), fld("maxlat", Empty.top))
  IN IF bad \/ IsEmpty(bbox) THEN [ok |-> FALSE] ELSE [ok |-> TRUE, bbox |-> bbox]

\* The box value is held as its comma-separated fields; a fifth field stays
\* in the last substring, whose comma ParseCoord rejects.
ParseBound(atts) ==
  IF ~Has(atts, "box") THEN [ok |-> TRUE, bbox |-> Empty]
  ELSE LET f == atts.box IN
    IF Len(f) < 4 THEN [ok |-> FALSE]
    ELSE LET b == ParseCoord(f[1])  l == ParseCoord(f[2])
             t == ParseCoord(f[3])  r == ParseCoord(f[4]) IN
      IF Len(f) > 4 \/ ~b.ok \/ ~l.ok \/ ~t.ok \/ ~r.ok THEN [ok |-> FALSE]
      ELSE [ok |-> TRUE, bbox |-> BBoxi(l.value, b.value, r.value, t.value)]

\* ------------------------------------------------------------ StartElement
\* The parts of the object a callback can change.
Cur == [nodes |-> nodes_, ways |-> ways_, relations |-> relations_, bbox |-> bbox_,
        inside |-> InsideWhich, last_way |-> last_way_, last_relation |-> last_relation_,
        exc |-> ""]
Throw(st, what) == [st EXCEPT !.exc = what]

\* tag_level_ == 1 && InsideWhich == NONE
StartTop(st, name, atts) ==
  LET lat == IF Has(atts, "lat") THEN ParseCoord(atts.lat) ELSE [ok |-> TRUE, value |-> 0]
      lon == IF Has(atts, "lon") THEN ParseCoord(atts.lon) ELSE [ok |-> TRUE, value |-> 0]
      id == IF Has(atts, "id") THEN ToInt(atts.id) ELSE 0
  IN IF ~lat.ok \/ ~lon.ok THEN Throw(st, "ParsingException")
     ELSE CASE name = "node" ->
                 [st EXCEPT !.inside = "NODE",
                            !.nodes = Insert(st.nodes, id, Node(lon.value, lat.value))]
            [] name = "way" ->
                 [st EXCEPT !.inside = "WAY", !.ways = Insert(st.ways, id, Way),
                            !.last_way = id]
            [] name = "relation" ->
                 [st EXCEPT !.inside = "RELATION",
                            !.relations = Insert(st.relations, id, Relation),
                            !.last_relation = id]
            [] name = "bounds" ->
                 LET b == ParseBounds(atts) IN
                 IF b.ok THEN [st EXCEPT !.bbox = b.bbox] ELSE Throw(st, "ParsingException")
            [] name = "bound" ->
                 LET b == ParseBound(atts) IN
                 IF b.ok THEN [st EXCEPT !.bbox = b.bbox] ELSE Throw(st, "ParsingException")
            [] OTHER -> st

\* tag_level_ == 2 && InsideWhich == WAY; the set of outcomes
StartInWay(st, name, atts) ==
  IF name = "tag" THEN
    {[st EXCEPT !.ways[st.last_way].Tags = ParseTag(@, atts)]}
  ELSE IF name = "nd" THEN
    IF Len(atts) = 0 THEN {Throw(st, "crash")}   \* **atts reads through the null terminator
    ELSE IF atts[1][1] = "ref" THEN
      {[st EXCEPT !.ways[st.last_way].Nodes = Append(@, ToInt(atts[1][2]))]}
    ELSE {Throw(st, "ParsingException")}
  ELSE {Throw(st, "ParsingException")}

\* tag_level_ == 2 && InsideWhich == RELATION; the set of outcomes
StartInRelationMut(st, name, atts) == {Throw(st, "ParsingException")}
StartInRelation(st, name, atts) ==
  IF name = "tag" THEN {st}   \* the ParseTag call is commented out
  ELSE IF name = "member" THEN
    IF (Has(atts, "type") /\ atts.type \notin {"node", "way", "relation"})
       \/ DOMAIN atts \ {"type", "ref", "role"} # {}
    THEN {Throw(st, "ParsingException")}
    ELSE
      LET refs == IF Has(atts, "ref") THEN {ToInt(atts.ref)} ELSE GarbageInts
          types == IF Has(atts, "type")
                   THEN {CASE atts.type = "node" -> "NODE" [] atts.type = "way" -> "WAY"
                           [] atts.type = "relation" -> "RELATION"}
                   ELSE GarbageTypes
          \* std::string built from an uninitialised pointer: a fault or arbitrary bytes
          roles == IF Has(atts, "role") THEN {atts.role} ELSE {"garbage"}
      IN {[st EXCEPT !.relations[st.last_relation].Members = Append(@, Member(t, r, ro))]
            : t \in types, r \in refs, ro \in roles}
         \cup (IF Has(atts, "role") THEN {} ELSE {Throw(st, "crash")})
  ELSE {Throw(st, "ParsingException")}

\* StartElement up to, but not including, ++tag_level_
StartElementOutcomes(st, level, name, atts) ==
  IF level = 1 /\ st.inside = "NONE" THEN {StartTop(st, name, atts)}
  ELSE IF level = 2 /\ st.inside = "NODE" THEN
    IF name = "tag" THEN {st} ELSE {Throw(st, "ParsingException")}
  ELSE IF level = 2 /\ st.inside = "WAY" THEN StartInWay(st, name, atts)
  ELSE IF level = 2 /\ st.inside = "RELATION" THEN StartInRelation(st, name, atts)
  ELSE IF level >= 2 THEN {Throw(st, "ParsingException")}
  ELSE {st}


\* -------------------------------------------------------------- EndElement
\* area += (osmlong_t)prev.x * cur.y - (osmlong_t)cur.x * prev.y
Cross(prev, cur) == WSub(WMul(prev.x, cur.y), WMul(cur.x, prev.y))

\* The loop over a closed way's node list from index i.  acc holds the
\* locals: area (exact), ovf (an addition left the osmlong_t range, which is
\* undefined for a signed type), bbox, missing (a reference was not found).
RECURSIVE ScanClosed(_, _, _, _)
ScanClosed(nodes, seq, i, acc) ==
  IF i > Len(seq) THEN acc
  ELSE IF seq[i] \notin DOMAIN nodes THEN [acc EXCEPT !.missing = TRUE]
  ELSE
    LET cur == nodes[seq[i]].Pos
        area == IF i = 1 THEN acc.area ELSE WAdd(acc.area, Cross(nodes[seq[i - 1]].Pos, cur))
    IN ScanClosed(nodes, seq, i + 1,
         [acc EXCEPT !.area = area, !.ovf = acc.ovf \/ ~InLong(area),
                     !.bbox = Include(acc.bbox, cur)])

\* The loop over a way that is not closed.
RECURSIVE ScanOpenMut(_, _, _, _)
ScanOpenMut(nodes, seq, i, acc) ==
  IF i > Len(seq) THEN acc
  ELSE IF seq[i] \notin DOMAIN nodes THEN ScanOpenMut(nodes, seq, i + 1, acc)
  ELSE ScanOpenMut(nodes, seq, i + 1, [acc EXCEPT !.bbox = Include(acc.bbox, nodes[seq[i]].Pos)])
RECURSIVE ScanOpen(_, _, _, _)
ScanOpen(nodes, seq, i, acc) ==
  IF i > Len(seq) THEN acc
  ELSE IF seq[i] \notin DOMAIN nodes THEN [acc EXCEPT !.missing = TRUE]
  ELSE ScanOpen(nodes, seq, i + 1, [acc EXCEPT !.bbox = Include(acc.bbox, nodes[seq[i]].Pos)])

Locals(bbox) == [area |-> WZero, ovf |-> FALSE, bbox |-> bbox, missing |-> FALSE]

\* Clockwise = area < 0
ClockwiseOf(acc) == IF acc.ovf THEN BOOLEAN ELSE {WNeg(acc.area)}

\* case WAY, closed branch: the way records it can leave, with exc set when it throws
EndWayClosed(nodes, w) ==
  LET acc == ScanClosed(nodes, w.Nodes, 1, Locals(w.BBox))
      w1 == [w EXCEPT !.Closed = TRUE, !.BBox = acc.bbox]
  IN IF acc.missing THEN {[way |-> w1, exc |-> "ParsingException"]}
     ELSE {[way |-> [w1 EXCEPT !.Clockwise = cw], exc |-> ""] : cw \in ClockwiseOf(acc)}

\* case WAY, the other branch
EndWayOpenMut(nodes, w) ==
  LET acc == ScanOpen(nodes, w.Nodes, 1, Locals(w.BBox))
  IN {[way |-> w, exc |-> IF acc.missing THEN "ParsingException" ELSE ""]}
EndWayOpen(nodes, w) ==
  LET acc == ScanOpen(nodes, w.Nodes, 1, Locals(w.BBox))
      w1 == [w EXCEPT !.BBox = acc.bbox]
  IN {[way |-> w1, exc |-> IF acc.missing THEN "ParsingException" ELSE ""]}

\* Nodes.front() == Nodes.back(); on an empty list both calls are undefined:
\* the comparison faults or yields either answer.
FrontIsBack(seq) ==
  IF seq = <<>> THEN {"true", "false", "fault"}
  ELSE {IF seq[1] = seq[Len(seq)] THEN "true" ELSE "false"}

\* the geometric step of EndElement for the way record w
EndWay(nodes, w) ==
  UNION {CASE c = "true" -> EndWayClosed(nodes, w)
           [] c = "false" -> EndWayOpen(nodes, w)
           [] c = "fault" -> {[way |-> w, exc |-> "crash"]}
         : c \in FrontIsBack(w.Nodes)}

\* EndElement up to, but not including, --tag_level_
EndElementOutcomesMut(st, level) ==
  IF level >= 2 THEN
    IF st.inside = "WAY" THEN
      {[st EXCEPT !.ways[st.last_way] = o.way, !.exc = o.exc,
                  !.inside = IF o.exc = "" THEN "NONE" ELSE st.inside]
         : o \in EndWay(st.nodes, st.ways[st.last_way])}
    ELSE {[st EXCEPT !.inside = "NONE"]}
  ELSE {st}
EndElementOutcomes(st, level) ==
  IF level = 2 THEN
    IF st.inside = "WAY" THEN
      {[st EXCEPT !.ways[st.last_way] = o.way, !.exc = o.exc,
                  !.inside = IF o.exc = "" THEN "NONE" ELSE st.inside]
         : o \in EndWay(st.nodes, st.ways[st.last_way])}
    ELSE {[st EXCEPT !.inside = "NONE"]}
  ELSE {st}


\* ------------------------------------------- file handle and tokenizer
\* f: what descriptor Load holds; opened / closed: open() calls that
\* succeeded and close() calls on that handle; created / freed: the same for
\* XML_ParserCreate / XML_ParserFree; misuse: a read on the closed handle or
\* a tokenizer call on a freed or missing instance.
NoRes == [f |-> "none", opened |-> 0, closed |-> 0, created |-> 0, freed |-> 0,
          misuse |-> FALSE]
ROpen(r, filename) ==
  IF filename = "-" THEN [r EXCEPT !.f = "stdin"] ELSE [r EXCEPT !.f = "file", !.opened = 1]
RClose(r) == IF r.f = "file" THEN [r EXCEPT !.closed = @ + 1] ELSE r
RCreate(r) == [r EXCEPT !.created = 1]
RFree(r) == [r EXCEPT !.freed = @ + 1]
RRead(r) == IF r.f = "file" /\ r.closed > 0 THEN [r EXCEPT !.misuse = TRUE] ELSE r
RUse(r) == IF r.created = 0 \/ r.freed > 0 THEN [r EXCEPT !.misuse = TRUE] ELSE r

\* catch (ParsingException &e): line and column are read, then close, free
CatchParsing(r) == RFree(RClose(RUse(r)))
\* catch (...): close, free, rethrow
CatchAllMut(r) == RFree(r)
CatchAll(r) == RFree(RClose(r))
\* after the loop: XML_ParserFree(parser); close(f)
Release(r) == RClose(RFree(r))

\* What the caller sees of an exception raised inside the try block.
RethrownMut(exc) == [result |-> "ParsingException", pos |-> TRUE]
Rethrown(exc) ==
  IF exc = "ParsingException" THEN [result |-> "ParsingException", pos |-> TRUE]
  ELSE [result |-> exc, pos |-> FALSE]
Cleanup(r, exc) == IF exc = "ParsingException" THEN CatchParsing(r) ELSE CatchAll(r)

Returned(op, result, pos, cause) == [op |-> op, result |-> result, pos |-> pos, cause |-> cause]
Running == Returned("Load", "running", FALSE, "")

\* ------------------------------------------------- the declared source
\* decl: the elements of the source by their 64-bit ids, positions as exact
\* fixed-point values; want: the records the source denotes under the ids as
\* stored; dup: an id was declared twice within a kind; bounds: a bounds or
\* bound element was seen; fresh: Load was entered on a datasource just
\* constructed or just cleared; cur: id of the open way or relation element.
ExactFixed(str) == CASE str = C0 -> 0 [] str = C10 -> 100000000
NoSrc == [nodes |-> NoMap, ways |-> NoMap, rels |-> NoMap, wnodes |-> NoMap,
          wways |-> NoMap, wrels |-> NoMap, dup |-> FALSE, bounds |-> FALSE,
          fresh |-> TRUE, cur |-> Id64(0, 0)]
First(m, k, v) == IF k \in DOMAIN m THEN m ELSE Put(m, k, v)

Declare(s, level, inside, name, atts) ==
  IF level = 1 THEN
    CASE name = "node" ->
           LET p == Vector2i(ExactFixed(atts.lon), ExactFixed(atts.lat)) IN
           [s EXCEPT !.dup = @ \/ atts.id \in DOMAIN s.nodes,
                     !.nodes = First(@, atts.id, p), !.wnodes = First(@, atts.id[2], p)]
      [] name = "way" ->
           [s EXCEPT !.dup = @ \/ atts.id \in DOMAIN s.ways, !.cur = atts.id,
                     !.ways = First(@, atts.id, <<>>), !.wways = First(@, atts.id[2], <<>>)]
      [] name = "relation" ->
           [s EXCEPT !.dup = @ \/ atts.id \in DOMAIN s.rels, !.cur = atts.id,
                     !.rels = First(@, atts.id, <<>>), !.wrels = First(@, atts.id[2], <<>>)]
      [] name \in {"bounds", "bound"} -> [s EXCEPT !.bounds = TRUE]
      [] OTHER -> s
  ELSE IF level = 2 /\ inside = "WAY" /\ name = "nd" THEN
    [s EXCEPT !.ways[s.cur] = Append(@, atts[1][2]),
              !.wways[s.cur[2]] = Append(@, atts[1][2][2])]
  ELSE IF level = 2 /\ inside = "RELATION" /\ name = "member" THEN
    [s EXCEPT !.rels[s.cur] = Append(@, atts),
              !.wrels[s.cur[2]] = Append(@, [atts EXCEPT !.ref = @[2]])]
  ELSE s


\* ------------------------------------------------------------------- Init
Init ==
  /\ nodes_ = NoMap /\ ways_ = NoMap /\ relations_ = NoMap
  /\ bbox_ = Empty
  /\ InsideWhich = "NONE" /\ tag_level_ = 0
  /\ last_way_ = 0 /\ last_relation_ = 0
  /\ pc = "idle" /\ res = NoRes /\ stdinOpen = TRUE /\ xmlDone = FALSE
  /\ call = Returned("none", "", FALSE, "")
  /\ ev = <<"none", "">>
  /\ src = NoSrc
  /\ loads = 0 /\ elems = 0
  /\ arg = <<>> /\ ret = <<>>

\* ------------------------------------------------------------------- Load
Store(st) ==
  /\ nodes_' = st.nodes /\ ways_' = st.ways /\ relations_' = st.relations
  /\ bbox_' = st.bbox /\ last_way_' = st.last_way /\ last_relation_' = st.last_relation

\* close(f) on descriptor 0 closes standard input
AfterClose(r) == IF r.f = "stdin" THEN FALSE ELSE stdinOpen

\* Load up to the first read: bbox_ reset, open, XML_ParserCreate (which can
\* return NULL), handlers set, InsideWhich and tag_level_ reset.
LoadMut(filename, created) ==
  /\ pc = "idle"
  /\ UNCHANGED <<arg, ret>>
  /\ loads' = loads + 1
  /\ bbox_' = bbox_
  /\ ev' = <<"none", "">>
  /\ src' = [NoSrc EXCEPT !.fresh = (call.op \in {"none", "Clear"})]
  /\ xmlDone' = FALSE
  /\ UNCHANGED <<nodes_, ways_, relations_, last_way_, last_relation_, elems>>
  /\ IF filename = "missing.osm" THEN
       /\ res' = NoRes
       /\ call' = Returned("Load", "SystemError", FALSE, "open")
       /\ UNCHANGED <<pc, InsideWhich, tag_level_, stdinOpen>>
     ELSE IF ~created THEN
       /\ res' = RClose(ROpen(NoRes, filename))
       /\ stdinOpen' = AfterClose(res')
       /\ call' = Returned("Load", "Exception", FALSE, "create")
       /\ UNCHANGED <<pc, InsideWhich, tag_level_>>
     ELSE
       /\ res' = RCreate(ROpen(NoRes, filename))
       /\ InsideWhich' = "NONE" /\ tag_level_' = 0
       /\ pc' = "streaming"
       /\ call' = Running
       /\ UNCHANGED stdinOpen
Load(filename, created) ==
  /\ pc = "idle"
  /\ UNCHANGED <<arg, ret>>
  /\ loads' = loads + 1
  /\ bbox_' = Empty
  /\ ev' = <<"none", "">>
  /\ src' = [NoSrc EXCEPT !.fresh = (call.op \in {"none", "Clear"})]
  /\ xmlDone' = FALSE
  /\ UNCHANGED <<nodes_, ways_, relations_, last_way_, last_relation_, elems>>
  /\ IF filename = "missing.osm" THEN
       /\ res' = NoRes
       /\ call' = Returned("Load", "SystemError", FALSE, "open")
       /\ UNCHANGED <<pc, InsideWhich, tag_level_, stdinOpen>>
     ELSE IF ~created THEN
       /\ res' = RClose(ROpen(NoRes, filename))
       /\ stdinOpen' = AfterClose(res')
       /\ call' = Returned("Load", "Exception", FALSE, "create")
       /\ UNCHANGED <<pc, InsideWhich, tag_level_>>
     ELSE
       /\ res' = RCreate(ROpen(NoRes, filename))
       /\ InsideWhich' = "NONE" /\ tag_level_' = 0
       /\ pc' = "streaming"
       /\ call' = Running
       /\ UNCHANGED stdinOpen

\* read() on the descriptor Load holds can deliver bytes
CanRead == res.f = "file" \/ stdinOpen

\* An exception leaves the try block: the matching handler releases the
\* resources and rethrows; the object keeps what the callbacks did so far.
Abort(st, exc, cause, r) ==
  /\ Store(st)
  /\ InsideWhich' = st.inside
  /\ res' = Cleanup(r, exc)
  /\ stdinOpen' = AfterClose(res')
  /\ pc' = "idle"
  /\ call' = [Rethrown(exc) EXCEPT !.result = @] @@ [op |-> "Load", cause |-> cause]
  /\ UNCHANGED <<tag_level_, xmlDone, loads, elems>>

\* the elements the tokenizer opens at the current depth, out of the given ones
Root == <<"osm", [version |-> <<"1">>]>>
Openable(top, children, max) ==
  IF pc # "streaming" THEN {}
  ELSE IF tag_level_ = 0 THEN {Root}
  ELSE IF tag_level_ = 1 THEN (IF elems < max THEN top ELSE {})
  ELSE IF tag_level_ = 2 THEN
    {c \in children :
       /\ (c[1] = "nd" /\ InsideWhich = "WAY") => Len(ways_[last_way_].Nodes) < MaxNd
       /\ (c[1] = "member" /\ InsideWhich = "RELATION") =>
             Len(relations_[last_relation_].Members) < MaxMembers}
  ELSE IF tag_level_ = 3 THEN {<<"tag", CHOOSE a \in TagAtts : TRUE>>}
  ELSE {}

\* The tokenizer calls StartElement(name, atts) from inside XML_Parse.
StartElement(name, atts) ==
  /\ pc = "streaming" /\ CanRead /\ ~xmlDone
  /\ UNCHANGED <<arg, ret>>
  /\ ev' = <<"start", name>>
  /\ \E o \in StartElementOutcomes(Cur, tag_level_, name, atts) :
       IF o.exc = "" THEN
         /\ Store(o) /\ InsideWhich' = o.inside
         /\ tag_level_' = tag_level_ + 1
         /\ res' = RUse(RRead(res))
         /\ elems' = IF tag_level_ = 1 THEN elems + 1 ELSE elems
         /\ src' = Declare(src, tag_level_, InsideWhich, name, atts)
         /\ UNCHANGED <<pc, stdinOpen, xmlDone, call, loads>>
       ELSE IF o.exc = "crash" THEN
         /\ Store(o) /\ pc' = "crashed"
         /\ UNCHANGED <<InsideWhich, tag_level_, res, stdinOpen, xmlDone, call, src, loads, elems>>
       ELSE
         /\ Abort(o, o.exc, "callback", RUse(RRead(res)))
         /\ UNCHANGED src

\* The tokenizer calls EndElement(name) from inside XML_Parse.
EndElement ==
  /\ pc = "streaming" /\ CanRead /\ ~xmlDone /\ tag_level_ > 0
  /\ UNCHANGED <<arg, ret>>
  /\ ev' = <<"end", IF tag_level_ = 2 THEN InsideWhich ELSE "NONE">>
  /\ \E o \in EndElementOutcomes(Cur, tag_level_) :
       IF o.exc = "" THEN
         /\ Store(o) /\ InsideWhich' = o.inside
         /\ tag_level_' = tag_level_ - 1
         /\ xmlDone' = (tag_level_ = 1)
         /\ res' = RUse(RRead(res))
         /\ UNCHANGED <<pc, stdinOpen, call, src, loads, elems>>
       ELSE IF o.exc = "crash" THEN
         /\ Store(o) /\ pc' = "crashed"
         /\ UNCHANGED <<InsideWhich, tag_level_, res, stdinOpen, xmlDone, call, src, loads, elems>>
       ELSE
         /\ Abort(o, o.exc, "callback", RUse(RRead(res)))
         /\ UNCHANGED src

\* read() returns a negative length: throw SystemError
ReadError ==
  /\ pc = "streaming"
  /\ UNCHANGED <<arg, ret>>
  /\ ev' = <<"error", "read">>
  /\ Abort(Cur, "SystemError", "read", RRead(res))
  /\ UNCHANGED src

\* XML_Parse returns XML_STATUS_ERROR on bytes that are not well-formed
TokenizerError ==
  /\ pc = "streaming" /\ CanRead
  /\ UNCHANGED <<arg, ret>>
  /\ ev' = <<"error", "tokenizer">>
  /\ Abort(Cur, "ParsingException", "tokenizer", RUse(RRead(res)))
  /\ UNCHANGED src

\* if (bbox_.IsEmpty()) for all nodes: bbox_.Include(node->second.Pos)
RECURSIVE IncludeAll(_, _, _)
IncludeAll(b, nodes, keys) ==
  IF keys = {} THEN b
  ELSE LET k == CHOOSE x \in keys : \A y \in keys : x <= y
       IN IncludeAll(Include(b, nodes[k].Pos), nodes, keys \ {k})
PostprocessMut(b, nodes) == b
Postprocess(b, nodes) == IF IsEmpty(b) THEN IncludeAll(b, nodes, DOMAIN nodes) ELSE b

\* read() returns 0 and the final XML_Parse call is made: it fails unless the
\* document is complete; otherwise the loop ends, the resources are released
\* and the dataset box is postprocessed.
EndOfStream ==
  /\ pc = "streaming" /\ CanRead
  /\ UNCHANGED <<arg, ret>>
  /\ ev' = <<"eof", "">>
  /\ IF ~xmlDone THEN
       /\ Abort(Cur, "ParsingException", "tokenizer", RUse(RRead(res)))
       /\ UNCHANGED src
     ELSE
       /\ res' = Release(RUse(RRead(res)))
       /\ stdinOpen' = AfterClose(res')
       /\ bbox_' = Postprocess(bbox_, nodes_)
       /\ pc' = "idle"
       /\ call' = Returned("Load", "ok", FALSE, "")
       /\ UNCHANGED <<nodes_, ways_, relations_, InsideWhich, tag_level_, last_way_,
                      last_relation_, xmlDone, src, loads, elems>>

\* ------------------------------------------------------------------ Clear
ClearMut ==
  /\ pc = "idle"
  /\ nodes_' = NoMap /\ relations_' = NoMap
  /\ call' = Returned("Clear", "ok", FALSE, "")
  /\ UNCHANGED <<ways_, bbox_, InsideWhich, tag_level_, last_way_, last_relation_, pc, res,
                 stdinOpen, xmlDone, ev, src, loads, elems, arg, ret>>
ClearResetMut ==
  /\ pc = "idle"
  /\ nodes_' = NoMap /\ ways_' = NoMap /\ relations_' = NoMap
  /\ bbox_' = Empty
  /\ call' = Returned("Clear", "ok", FALSE, "")
  /\ UNCHANGED <<InsideWhich, tag_level_, last_way_, last_relation_, pc, res,
                 stdinOpen, xmlDone, ev, src, loads, elems, arg, ret>>
Clear ==
  /\ pc = "idle"
  /\ nodes_' = NoMap /\ ways_' = NoMap /\ relations_' = NoMap
  /\ call' = Returned("Clear", "ok", FALSE, "")
  /\ UNCHANGED <<bbox_, InsideWhich, tag_level_, last_way_, last_relation_, pc, res,
                 stdinOpen, xmlDone, ev, src, loads, elems, arg, ret>>

\* ---------------------------------------------------------- specification
\* The lifecycle: Load and Clear calls in any order on one datasource.
Next ==
  \/ \E filename \in LifeFilenames, created \in BOOLEAN :
        loads < MaxLoads /\ Load(filename, created)
  \/ \E e \in Openable(LifeTopLevel, LifeChildren, MaxElems) : StartElement(e[1], e[2])
  \/ EndElement
  \/ ReadError
  \/ TokenizerError
  \/ EndOfStream
  \/ Clear

Spec == Init /\ [][Next]_vars

\* The dispatcher: one Load on a fresh datasource, every element variant.
NextOne ==
  \/ \E filename \in Filenames, created \in BOOLEAN :
        loads < 1 /\ Load(filename, created)
  \/ \E e \in Openable(TopLevel, Children, MaxElemsOne) : StartElement(e[1], e[2])
  \/ EndElement
  \/ ReadError
  \/ TokenizerError
  \/ EndOfStream
  \/ Clear

SpecOne == Init /\ [][NextOne]_vars

\* ---------------------------------------- the end-of-way step on its own
\* Load is inside its read loop, the way element with id 0 is open and its
\* nd children have been read.
G0 == ParseCoord(C0).value
G10 == ParseCoord(C10).value
G180 == ParseCoord(<<"1", "8", "0">>).value
\* a node map: a square of side 10 degrees and three corners of the world
GeoNodes ==
  [k \in 1..7 |-> CASE k = 1 -> Node(G0, G0) [] k = 2 -> Node(G10, G0)
                     [] k = 3 -> Node(G10, G10) [] k = 4 -> Node(G0, G10)
                     [] k = 5 -> Node(-G180, -G180) [] k = 6 -> Node(G180, -G180)
                     [] k = 7 -> Node(G180, G180)]
\* ids that nd elements can carry; 8 is not in the map
GeoIds == 1..8
RECURSIVE SeqsUpTo(_, _)
SeqsUpTo(S, n) ==
  IF n = 0 THEN {<<>>}
  ELSE LET shorter == SeqsUpTo(S, n - 1)
       IN shorter \cup {Append(q, x) : q \in {r \in shorter : Len(r) = n - 1}, x \in S}

InitGeo ==
  /\ nodes_ = GeoNodes /\ relations_ = NoMap
  /\ ways_ \in {Put(NoMap, 0, [Way EXCEPT !.Nodes = q]) : q \in SeqsUpTo(GeoIds, MaxGeomLen)}
  /\ bbox_ = Empty
  /\ InsideWhich = "WAY" /\ tag_level_ = 2
  /\ last_way_ = 0 /\ last_relation_ = 0
  /\ pc = "streaming" /\ res = RCreate(ROpen(NoRes, "dump.osm"))
  /\ stdinOpen = TRUE /\ xmlDone = FALSE
  /\ call = Running
  /\ ev = <<"none", "">>
  /\ src = NoSrc
  /\ loads = 1 /\ elems = 1
  /\ arg = <<>> /\ ret = <<>>

\* the closing tag of the open way arrives
NextGeo == tag_level_ = 2 /\ EndElement

SpecGeom == InitGeo /\ [][NextGeo]_vars

\* ------------------------------------------------ ParseCoord on its own
\* ParseCoord is called directly with one string out of CoordInputs: an
\* optional sign, an integer part, optionally a dot and a fractional part of
\* up to MaxFracLen digits, and optionally something after it.
DigitChar(n) ==
  CASE n = 0 -> "0" [] n = 1 -> "1" [] n = 2 -> "2" [] n = 3 -> "3" [] n = 4 -> "4"
    [] n = 5 -> "5" [] n = 6 -> "6" [] n = 7 -> "7" [] n = 8 -> "8" [] n = 9 -> "9"
Heads == {<<>>, <<"-">>}
IntParts == {<<>>, <<"0">>, <<"1">>, <<"4", "5">>, <<"1", "7", "9">>, <<"1", "8", "0">>,
             <<"1", "8", "1">>, <<"0", "1", "8", "0">>, <<"9", "9", "9">>}
\* fractional parts of n digits: 1234..., 00..01 and 99..9
FracParts(n) == {[i \in 1..n |-> DigitChar(((i - 1) % 9) + 1)],
                 [i \in 1..n |-> IF i = n THEN "1" ELSE "0"],
                 [i \in 1..n |-> "9"]}
Tails == {<<>>, <<"x">>, <<".", "5">>, <<"-">>}
CoordInputs ==
  {h \o ip \o d \o t :
     h \in Heads, ip \in IntParts, t \in Tails,
     d \in {<<>>} \cup {<<".">> \o f : f \in UNION {FracParts(n) : n \in 0..MaxFracLen}}}

InitCoord ==
  /\ nodes_ = NoMap /\ ways_ = NoMap /\ relations_ = NoMap
  /\ bbox_ = Empty
  /\ InsideWhich = "NONE" /\ tag_level_ = 0
  /\ last_way_ = 0 /\ last_relation_ = 0
  /\ pc = "idle" /\ res = NoRes /\ stdinOpen = TRUE /\ xmlDone = FALSE
  /\ call = Returned("none", "", FALSE, "")
  /\ ev = <<"none", "">>
  /\ src = NoSrc
  /\ loads = 0 /\ elems = 0
  /\ arg \in CoordInputs /\ ret = <<>>

\* the call ParseCoord(arg)
ParseCoordCall ==
  /\ ret = <<>>
  /\ ret' = <<ParseCoord(arg)>>
  /\ UNCHANGED <<nodes_, ways_, relations_, bbox_, InsideWhich, tag_level_, last_way_,
                 last_relation_, pc, res, stdinOpen, xmlDone, call, ev, src, loads, elems,
                 arg>>

NextCoord == ParseCoordCall

SpecCoord == InitCoord /\ [][NextCoord]_vars

\* ---------------------------------------------------------------- queries
GetBBox == bbox_
Find(m, id) == {k \in DOMAIN m : Widen(k) = id}
Lookup(m, id) ==
  IF Find(m, id) = {} THEN [exc |-> "DataException"]
  ELSE [exc |-> "", val |-> m[CHOOSE k \in Find(m, id) : TRUE]]
GetNode(id) == Lookup(nodes_, id)
GetWay(id) == Lookup(ways_, id)
GetRelation(id) == Lookup(relations_, id)
\* GetWays(out, bbox): the ways in the map's iteration order (ascending key)
\* whose BBox intersects bbox, appended to out
RECURSIVE AppendWays(_, _, _)
AppendWays(out, bbox, keys) ==
  IF keys = {} THEN out
  ELSE LET k == CHOOSE x \in keys : \A y \in keys : x <= y
       IN AppendWays(IF Intersects(ways_[k].BBox, bbox) THEN Append(out, ways_[k]) ELSE out,
                     bbox, keys \ {k})
GetWaysMut(out, bbox) == AppendWays(out, BBoxi(IntMin, IntMin, IntMax, IntMax), DOMAIN ways_)
GetWays(out, bbox) == AppendWays(out, bbox, DOMAIN ways_)

\* ------------------------------------------------------------- properties
LoadReturned == pc = "idle" /\ call.op = "Load"
LoadOK == LoadReturned /\ call.result = "ok"

Min(S) == CHOOSE x \in S : \A y \in S : x <= y
Max(S) == CHOOSE x \in S : \A y \in S : x >= y
\* the smallest axis-aligned box containing the points P
BoxOf(P) ==
  IF P = {} THEN Empty
  ELSE BBoxi(Min({p.x : p \in P}), Min({p.y : p \in P}),
             Max({p.x : p \in P}), Max({p.y : p \in P}))
Range(f) == {f[k] : k \in DOMAIN f}

TypeName(t) == CASE t = "node" -> "NODE" [] t = "way" -> "WAY" [] t = "relation" -> "RELATION"
                 [] OTHER -> "?"
\* the stored member m carries the attributes the member element a has
MemberIs(m, a) ==
  /\ Has(a, "type") => m.Type = TypeName(a.type)
  /\ Has(a, "ref") => m.Ref = a.ref
  /\ Has(a, "role") => m.Role = a.role
MembersAre(ms, as) ==
  Len(ms) = Len(as) /\ \A i \in 1..Len(ms) : MemberIs(ms[i], as[i])

\* The three maps hold exactly what the source of the last Load declared,
\* under the ids as stored: the nodes with the position of their first
\* element, the ways with their node references and the relations with their
\* members, in source order.
StoreIsSource ==
  /\ DOMAIN nodes_ = DOMAIN src.wnodes
  /\ \A k \in DOMAIN nodes_ : nodes_[k].Pos = src.wnodes[k]
  /\ DOMAIN ways_ = DOMAIN src.wways
  /\ \A k \in DOMAIN ways_ : ways_[k].Nodes = src.wways[k]
  /\ DOMAIN relations_ = DOMAIN src.wrels
  /\ \A k \in DOMAIN relations_ : MembersAre(relations_[k].Members, src.wrels[k])

\* C1 (as claimed): after every Load that returns successfully the maps hold
\* exactly the entities the loaded source declares, whatever earlier Loads
\* inserted and whether or not Clear was called in between.
C1_FullRebuild == LoadOK => StoreIsSource

\* C1 (amended): a Load entered on a datasource just constructed or just
\* cleared, and returning successfully, leaves in the maps exactly the
\* entities its source declares (under the ids as stored); Load itself
\* discards nothing.
C1_RebuildAfterClear == (LoadOK /\ src.fresh) => StoreIsSource

C1_Witness ==
  /\ LoadOK /\ src.fresh /\ loads = 2
  /\ DOMAIN nodes_ # {} /\ DOMAIN ways_ # {}

\* C2 (as claimed): right after Clear the three maps are empty and GetBBox
\* returns the empty box.
C2_ClearResetsBBox ==
  (pc = "idle" /\ call.op = "Clear") =>
     (nodes_ = NoMap /\ ways_ = NoMap /\ relations_ = NoMap /\ GetBBox = Empty)

\* C2 (amended): Clear empties the three maps and leaves the dataset
\* bounding box as it was: GetBBox returns after Clear what it returned
\* before.
C2_ClearKeepsBBox ==
  [][call'.op = "Clear" =>
       (nodes_' = NoMap /\ ways_' = NoMap /\ relations_' = NoMap /\ bbox_' = bbox_)]_vars

C2_Witness ==
  /\ pc = "idle" /\ call.op = "Clear" /\ ~IsEmpty(GetBBox)
  /\ nodes_ = NoMap /\ ways_ = NoMap /\ relations_ = NoMap

\* C3: whenever Load has terminated, by return or by any exception, the
\* file handle it opened has been closed exactly once, the tokenizer it
\* created has been freed exactly once, and neither was used after release;
\* while Load runs nothing has been released.
C3_ResourcesReleased ==
  /\ LoadReturned =>
       (res.closed = res.opened /\ res.freed = res.created /\ ~res.misuse)
  /\ pc = "streaming" =>
       (res.closed = 0 /\ res.freed = 0 /\ res.created = 1 /\ ~res.misuse)

C3_Witness ==
  /\ LoadReturned /\ call.result = "ParsingException" /\ call.cause = "callback"
  /\ res.opened = 1 /\ res.closed = 1 /\ res.created = 1 /\ res.freed = 1

\* C4 (as claimed): a read error and a tokenizer error while streaming are
\* both re-raised as a ParsingError carrying line and column.
C4_AllErrorsDecorated ==
  (LoadReturned /\ call.cause \in {"read", "tokenizer"}) =>
     (call.result = "ParsingException" /\ call.pos)

\* C4 (amended): both abort the Load at once; a tokenizer error is re-raised
\* as a ParsingError carrying the tokenizer's line and column, a read error
\* is re-raised unchanged as a SystemError without a position.
C4_ErrorsRethrown ==
  /\ [][(pc = "streaming" /\ ev' \in {<<"error", "read">>, <<"error", "tokenizer">>}) =>
          (pc' = "idle" /\ call'.op = "Load"
           /\ nodes_' = nodes_ /\ ways_' = ways_ /\ relations_' = relations_)]_vars
  /\ [](LoadReturned =>
          /\ call.cause = "tokenizer" => (call.result = "ParsingException" /\ call.pos)
          /\ call.cause = "read" => (call.result = "SystemError" /\ ~call.pos))

C4_Witness ==
  LoadReturned /\ call.cause = "read" /\ call.result = "SystemError" /\ tag_level_ = 2

\* the step is EndElement on the way element itself
ClosesWay == pc = "streaming" /\ tag_level_ = 2 /\ InsideWhich = "WAY" /\ ev' = <<"end", "WAY">>
\* the open way holds a reference that is not in the node map
DanglingRef == \E i \in DOMAIN ways_[last_way_].Nodes : ways_[last_way_].Nodes[i] \notin DOMAIN nodes_

C6_ClosedIff ==
  LoadOK => \A k \in DOMAIN ways_ :
     ways_[k].Closed <=>
       (ways_[k].Nodes # <<>> /\ ways_[k].Nodes[1] = ways_[k].Nodes[Len(ways_[k].Nodes)])

\* the shoelace sum of a node list over the node map, exactly
RECURSIVE Shoelace(_, _, _)
Shoelace(nodes, seq, i) ==
  IF i >= Len(seq) THEN WZero
  ELSE LET p == nodes[seq[i]].Pos
           q == nodes[seq[i + 1]].Pos
       IN WAdd(WSub(WMul(p.x, q.y), WMul(q.x, p.y)), Shoelace(nodes, seq, i + 1))

\* C7: for every closed way, Clockwise is TRUE exactly when the shoelace sum
\* of its node positions in listed order (x longitude, y latitude) is
\* strictly negative.
C7_ClockwiseIffNegative ==
  (pc = "streaming" /\ ev = <<"end", "WAY">> /\ ways_[0].Closed /\ ways_[0].Nodes # <<>>) =>
     (ways_[0].Clockwise <=> WNeg(Shoelace(nodes_, ways_[0].Nodes, 1)))

\* the positions of the stored nodes a way's node list names
WayPoints(w) == {nodes_[w.Nodes[i]].Pos : i \in {j \in DOMAIN w.Nodes : w.Nodes[j] \in DOMAIN nodes_}}

\* C8 (as claimed): after every successful Load the bounding box of every
\* way in the store is the smallest box containing the stored positions of
\* the nodes in its node list.
C8_WayBoxExact == LoadOK => \A k \in DOMAIN ways_ : ways_[k].BBox = BoxOf(WayPoints(ways_[k]))

\* C8 (amended): after every successful Load the bounding box of every way
\* that this Load declared, closed or not, is the smallest box containing
\* the stored positions of the nodes in its node list; a way left by an
\* earlier, failed Load keeps the partial box it had when that Load failed.
C8_DeclaredWayBoxExact ==
  LoadOK => \A k \in DOMAIN src.wways : ways_[k].BBox = BoxOf(WayPoints(ways_[k]))

C8_Witness ==
  /\ LoadOK
  /\ \E k \in DOMAIN src.wways :
       /\ ~ways_[k].Closed /\ Len(ways_[k].Nodes) = 2
       /\ ways_[k].BBox = BBoxi(G0, G0, G10, G10)

\* C9 (as claimed): after a successful Load of a source without a bounds or
\* bound element GetBBox is the union of the positions of the nodes that
\* source declares.
C9_BBoxOfDeclared ==
  (LoadOK /\ ~src.bounds) => GetBBox = BoxOf(Range(src.nodes))

\* C9 (amended): after a successful Load of a source without a bounds or
\* bound element GetBBox is the union of the positions of all nodes in the
\* node map: those the source added and those earlier Loads left there.
C9_BBoxOfStored ==
  (LoadOK /\ ~src.bounds) => GetBBox = BoxOf({nodes_[k].Pos : k \in DOMAIN nodes_})

C9_Witness ==
  /\ LoadOK /\ ~src.bounds /\ loads = 2
  /\ Cardinality(DOMAIN src.nodes) = 1 /\ Cardinality(DOMAIN nodes_) = 2
  /\ GetBBox = BBoxi(G0, G0, G10, G10)

\* ids to look up: those the elements can carry and one no element carries
ProbeIds == IdAttrs \cup {Id64(0, 3)}

\* C10: after a successful Load of a source whose ids are unique per kind,
\* every declared node, way and relation is found under its id with the
\* source's data, and an id the source does not declare is not found.
C10_RoundTrip ==
  (LoadOK /\ src.fresh /\ ~src.dup) =>
     /\ \A id \in DOMAIN src.nodes :
          GetNode(id).exc = "" /\ GetNode(id).val.Pos = src.nodes[id]
     /\ \A id \in DOMAIN src.ways :
          /\ GetWay(id).exc = ""
          /\ [i \in DOMAIN GetWay(id).val.Nodes |-> Widen(GetWay(id).val.Nodes[i])] = src.ways[id]
     /\ \A id \in DOMAIN src.rels :
          /\ GetRelation(id).exc = ""
          /\ LET ms == GetRelation(id).val.Members
             IN MembersAre([i \in DOMAIN ms |-> [ms[i] EXCEPT !.Ref = Widen(@)]], src.rels[id])
     /\ \A id \in ProbeIds :
          /\ id \notin DOMAIN src.nodes => GetNode(id).exc = "DataException"
          /\ id \notin DOMAIN src.ways => GetWay(id).exc = "DataException"
          /\ id \notin DOMAIN src.rels => GetRelation(id).exc = "DataException"

\* C11: identifiers are kept as 64-bit values end to end: after a successful
\* Load of a fresh datasource, elements of one kind with different 64-bit ids
\* are distinct records, every stored member ref is the declared ref, and an
\* nd ref that resolved at the close of its way names a node declared with
\* exactly that 64-bit id.
C11_IdsLossless ==
  (LoadOK /\ src.fresh) =>
     /\ Cardinality(DOMAIN nodes_) = Cardinality(DOMAIN src.nodes)
     /\ Cardinality(DOMAIN ways_) = Cardinality(DOMAIN src.ways)
     /\ Cardinality(DOMAIN relations_) = Cardinality(DOMAIN src.rels)
     /\ \A id \in DOMAIN src.ways : \A i \in DOMAIN src.ways[id] :
          src.ways[id][i] \in DOMAIN src.nodes
     /\ \A id \in DOMAIN src.rels : \A i \in DOMAIN src.rels[id] :
          Has(src.rels[id][i], "ref") =>
             \E k \in DOMAIN relations_ :
                /\ i \in DOMAIN relations_[k].Members
                /\ Widen(relations_[k].Members[i].Ref) = src.rels[id][i].ref

\* ---------------------------------------------- what a coordinate denotes
\* the string without its leading sign
Unsigned(s) == IF Len(s) > 0 /\ s[1] = "-" THEN Tail(s) ELSE s
DotsOf(s) == {i \in DOMAIN s : s[i] = "."}
\* optional leading '-', digits, optional single '.', digits
WellFormedCoord(s) ==
  /\ \A i \in DOMAIN Unsigned(s) : Unsigned(s)[i] \in Digits \cup {"."}
  /\ Cardinality(DotsOf(Unsigned(s))) <= 1
\* the digits before the first dot, and those after it
IntDigits(s) ==
  LET u == Unsigned(s) IN
  IF DotsOf(u) = {} THEN u ELSE SubSeq(u, 1, Min(DotsOf(u)) - 1)
FracDigits(s) ==
  LET u == Unsigned(s) IN
  IF DotsOf(u) = {} THEN <<>> ELSE SubSeq(u, Min(DotsOf(u)) + 1, Len(u))
Pow10(n) == CASE n = 0 -> 1 [] n = 1 -> 10 [] n = 2 -> 100 [] n = 3 -> 1000
              [] n = 4 -> 10000 [] n = 5 -> 100000 [] n = 6 -> 1000000
\* the number a digit string of at most seven digits denotes
RECURSIVE SumDigits(_, _)
SumDigits(d, i) ==
  IF i > Len(d) THEN 0 ELSE DigitVal(d[i]) * Pow10(Len(d) - i) + SumDigits(d, i + 1)
\* the first seven fractional digits, right-padded with zeros
Frac7(d) == [i \in 1..7 |-> IF i <= Len(d) THEN d[i] ELSE "0"]
Denoted(s) ==
  LET m == SumDigits(IntDigits(s), 1) * 10000000 + SumDigits(Frac7(FracDigits(s)), 1)
  IN IF Len(s) > 0 /\ s[1] = "-" THEN -m ELSE m
IntPartFits(s) == SumDigits(IntDigits(s), 1) <= 180

\* C12: for every input of the form optional '-', digits, optional single
\* '.', digits with integer part at most 180, ParseCoord returns sign *
\* (integer part * 10^7 + the first seven fractional digits, right-padded
\* with zeros); further digits are truncated, not rounded.
C12_FixedPoint ==
  (ret # <<>> /\ WellFormedCoord(arg) /\ IntPartFits(arg)) =>
     (ret[1].ok /\ ret[1].value = Denoted(arg))

C12_Witness ==
  /\ ret # <<>> /\ arg = <<"1", ".", "1", "2", "3", "4", "5", "6", "7", "8", "9">>
  /\ ret[1].ok /\ ret[1].value = 11234567

\* a character that is neither a digit nor a dot nor the leading '-'
HasBadChar(s) == \E i \in DOMAIN Unsigned(s) : Unsigned(s)[i] \notin Digits \cup {"."}
HasSecondDot(s) == Cardinality(DotsOf(Unsigned(s))) >= 2
\* the digits before the first dot run past 180
IntPartTooLarge(s) ==
  /\ \A i \in DOMAIN IntDigits(s) : IntDigits(s)[i] \in Digits
  /\ ~IntPartFits(s)

\* C13: ParseCoord fails with a ParsingError for every input in which a
\* second '.' appears, or a character other than a digit, a '.' or the
\* leading '-' appears, at any position, and for every input whose
\* integer-part digits exceed 180.
C13_RejectsMalformed ==
  (ret # <<>> /\ (HasSecondDot(arg) \/ HasBadChar(arg) \/ IntPartTooLarge(arg))) =>
     ~ret[1].ok

\* C14: ParseCoord rejects "180.0000001", and every value it returns lies in
\* -1800000000 .. 1800000000.
C14_WithinRange ==
  ret # <<>> =>
     /\ arg = <<"1", "8", "0", ".", "0", "0", "0", "0", "0", "0", "1">> => ~ret[1].ok
     /\ ret[1].ok => (ret[1].value >= -1800000000 /\ ret[1].value <= 1800000000)

\* query boxes: the square of the stored nodes, its lower left corner, a box
\* far from every node, and the whole coordinate range
QueryBoxes ==
  {BBoxi(G0, G0, G10, G10), BBoxi(G0, G0, G0, G0),
   BBoxi(2 * G10, 2 * G10, 3 * G10, 3 * G10), BBoxi(-G180, -G180, G180, G180)}
\* the boxes have no point in common
Disjoint(a, b) ==
  IsEmpty(BBoxi(Max({a.left, b.left}), Max({a.bottom, b.bottom}),
                Min({a.right, b.right}), Min({a.top, b.top})))
\* every point of d is in q
Covers(q, d) == q.left <= d.left /\ q.bottom <= d.bottom /\ q.right >= d.right /\ q.top >= d.top
\* the ways with property P, in ascending key order
RECURSIVE WaysWhere(_, _)
WaysWhere(P(_), keys) ==
  IF keys = {} THEN <<>>
  ELSE LET k == Max(keys)
       IN WaysWhere(P, keys \ {k}) \o (IF P(ways_[k]) THEN <<ways_[k]>> ELSE <<>>)

Opens == pc = "streaming" /\ ev'[1] = "start"
Opened == <<tag_level_, InsideWhich, ev'[2]>>
\* the callback returned normally / threw a ParsingException that ended Load
Accepted == pc' = "streaming" /\ tag_level_' = tag_level_ + 1
Refused == pc' = "idle" /\ call'.op = "Load" /\ call'.result = "ParsingException"
EntitiesKept == nodes_' = nodes_ /\ ways_' = ways_ /\ relations_' = relations_

\* C16 (as claimed): an element opened at depth 2 or more is accepted only as
\* (2, WAY, tag), (2, WAY, nd), (2, RELATION, member) or (2, NODE, tag); every
\* other combination, a tag directly inside a relation included, fails with
\* a ParsingError and changes no entity.
C16_StrictNoRelationTag ==
  [][(Opens /\ tag_level_ >= 2
      /\ Opened \notin {<<2, "WAY", "tag">>, <<2, "WAY", "nd">>,
                        <<2, "RELATION", "member">>, <<2, "NODE", "tag">>}) =>
       (Refused /\ EntitiesKept)]_vars

\* C16 (amended): the accepted combinations are those four and
\* (2, RELATION, tag), which is accepted and ignored like a tag inside a
\* node; every other combination at depth 2 or more, any child of an
\* unrecognised top-level element and any element at depth 3 or more
\* included, fails with a ParsingError and changes no entity.
C16_StrictAtDepth2 ==
  /\ [][(Opens /\ tag_level_ >= 2
         /\ Opened \notin {<<2, "WAY", "tag">>, <<2, "WAY", "nd">>,
                           <<2, "RELATION", "member">>, <<2, "NODE", "tag">>,
                           <<2, "RELATION", "tag">>}) =>
          (Refused /\ EntitiesKept)]_vars
  /\ [][(Opens /\ Opened \in {<<2, "RELATION", "tag">>, <<2, "NODE", "tag">>}) =>
          (Accepted /\ EntitiesKept)]_vars

C16_Witness ==
  /\ LoadReturned /\ call.result = "ParsingException" /\ call.cause = "callback"
  /\ ev = <<"start", "tag">> /\ tag_level_ = 3 /\ InsideWhich = "RELATION"
  /\ relations_[last_relation_].Members = <<>>

\* the member element just accepted, as the source declares it
LastMember == LET ms == src'.rels[src.cur] IN ms[Len(ms)]

\* C17: a member element inside a relation appends a Member only when type,
\* ref and role are all present and type is node, way or relation; otherwise
\* Load fails with a ParsingError and no Member is appended.
C17_MemberComplete ==
  [][(Opens /\ Opened = <<2, "RELATION", "member">>) =>
       \/ /\ Accepted
          /\ Len(relations_'[last_relation_].Members) = Len(relations_[last_relation_].Members) + 1
          /\ DOMAIN LastMember = {"type", "ref", "role"}
          /\ LastMember.type \in {"node", "way", "relation"}
       \/ Refused /\ EntitiesKept]_vars

\* what the geometric postprocessor writes into a way
Geometry(w) == <<w.Closed, w.Clockwise, w.BBox>>

\* C18: the geometric postprocessor runs at the close event of a way element
\* itself and at no other event: a way's Closed, Clockwise or BBox changes
\* only in that step, and in that step the open way gets the box of its
\* nodes; the close that returns to depth 1 leaves the container NONE, and
\* between events container # NONE implies depth >= 2.
C18_PostprocessAtWayClose ==
  /\ [][(\E k \in DOMAIN ways_ \cap DOMAIN ways_' : Geometry(ways_'[k]) # Geometry(ways_[k]))
          => ClosesWay]_vars
  /\ [][(ClosesWay /\ pc' = "streaming") =>
          /\ ways_'[last_way_].BBox = BoxOf(WayPoints(ways_[last_way_]))
          /\ \A k \in DOMAIN ways_ \ {last_way_} : ways_'[k] = ways_[k]]_vars
  /\ [][(pc = "streaming" /\ ev'[1] = "end" /\ pc' = "streaming" /\ tag_level_' = 1)
          => InsideWhich' = "NONE"]_vars
  /\ [](pc = "streaming" => (InsideWhich # "NONE" => tag_level_ >= 2))

C18_Witness ==
  /\ pc = "streaming" /\ ev = <<"end", "WAY">> /\ tag_level_ = 1 /\ InsideWhich = "NONE"
  /\ Len(ways_[last_way_].Nodes) = 2 /\ ~ways_[last_way_].Closed
  /\ ways_[last_way_].Tags # NoMap
  /\ ways_[last_way_].BBox = BBoxi(G0, G0, G10, G10)

\* C19: Clear is enough to recover from any history.  A Load entered right
\* after Clear starts streaming from the state a freshly constructed
\* datasource starts from (empty maps, empty box, depth 0, container NONE,
\* and the entry references are those of the element opened in this Load),
\* and when it succeeds the maps, the dataset box and the parser state are
\* those its source alone determines; a Load that fails keeps the entities
\* inserted before the failure.
C19_ClearRecovers ==
  /\ [][(pc = "idle" /\ pc' = "streaming" /\ src'.fresh) =>
          /\ nodes_' = NoMap /\ ways_' = NoMap /\ relations_' = NoMap
          /\ bbox_' = Empty /\ InsideWhich' = "NONE" /\ tag_level_' = 0]_vars
  /\ [](pc = "streaming" =>
          /\ InsideWhich = "WAY" => (last_way_ = src.cur[2] /\ last_way_ \in DOMAIN ways_)
          /\ InsideWhich = "RELATION" =>
               (last_relation_ = src.cur[2] /\ last_relation_ \in DOMAIN relations_))
  /\ []((LoadOK /\ src.fresh) =>
          /\ StoreIsSource
          /\ tag_level_ = 0 /\ InsideWhich = "NONE"
          /\ ~src.bounds => GetBBox = BoxOf(Range(src.wnodes))
          /\ \A k \in DOMAIN ways_ : ways_[k].BBox = BoxOf(WayPoints(ways_[k])))
  /\ [][(pc = "streaming" /\ pc' = "idle" /\ call'.result # "ok") =>
          /\ nodes_' = nodes_ /\ relations_' = relations_
          /\ DOMAIN ways_' = DOMAIN ways_
          /\ \A k \in DOMAIN ways_ : ways_'[k].Nodes = ways_[k].Nodes /\ ways_'[k].Tags = ways_[k].Tags]_vars

C19_Witness ==
  /\ LoadOK /\ src.fresh /\ loads = 2 /\ call.op = "Load"
  /\ DOMAIN nodes_ = {2} /\ DOMAIN src.wnodes = {2}
  /\ GetBBox = BBoxi(G10, G10, G10, G10)
  /\ DOMAIN ways_ = {1} /\ ways_[1].Nodes = <<2>>

\* the running shoelace sums of a node list, from the pair (i, i + 1) on
RECURSIVE SumsInRange(_, _, _, _)
SumsInRange(nodes, seq, i, sum) ==
  IF i >= Len(seq) THEN TRUE
  ELSE LET p == nodes[seq[i]].Pos
           q == nodes[seq[i + 1]].Pos
           a == WMul(p.x, q.y)
           b == WMul(q.x, p.y)
           s == WAdd(sum, WSub(a, b))
       IN /\ InLong(a) /\ InLong(b) /\ InLong(WSub(a, b)) /\ InLong(s)
          /\ SumsInRange(nodes, seq, i + 1, s)

\* C20: for every closed way whose nodes all resolve, each cross product
\* and the running shoelace sum stay within the signed 64-bit range of the
\* accumulator, so the sign tested for Clockwise is that of the exact sum.
C20_AccumulatorFits ==
  (pc = "streaming" /\ ev = <<"end", "WAY">> /\ ways_[0].Closed /\ ways_[0].Nodes # <<>>) =>
     SumsInRange(nodes_, ways_[0].Nodes, 1, WZero)
====
